---- MODULE Spec2Model ----
(***************************************************************************)
(* A model of src/server/osint.js: URL normalisation and extraction, the   *)
(* URLHaus bulk-feed cache (UrlhausCache) and the lookup aggregator        *)
(* (OsintService.inspectUrl / inspectText).                                *)
(*                                                                         *)
(* Strings are sequences of one-character strings, so that trimming,       *)
(* case folding, splitting and URL parsing are computed, not assumed.      *)
(* The JavaScript event loop is modelled by its macrotasks: one action is  *)
(* one call from the HTTP layer, one network event or one timer, together  *)
(* with every promise continuation (microtask) that event releases.        *)
(***************************************************************************)
EXTENDS Integers, Sequences, FiniteSets, TLC

(***************************************************************************)
(* Program constants (src/server/osint.js:3-5, 95 and 139).                *)
(***************************************************************************)
URLHAUS_TTL_MS == 15 * 60 * 1000
FETCH_TIMEOUT_MS == 8000
MAX_TEXT_URLS == 6
HOST_CAP == 5
MATCH_CAP == 5

(***************************************************************************)
(* Characters and strings.                                                 *)
(***************************************************************************)
UpperChars == <<"A","B","C","D","E","F","G","H","I","J","K","L","M",
                "N","O","P","Q","R","S","T","U","V","W","X","Y","Z">>
LowerChars == <<"a","b","c","d","e","f","g","h","i","j","k","l","m",
                "n","o","p","q","r","s","t","u","v","w","x","y","z">>

\* String.prototype.toLowerCase on one character.
LowerChar(c) ==
  IF \E i \in 1..26 : UpperChars[i] = c
  THEN LowerChars[CHOOSE i \in 1..26 : UpperChars[i] = c]
  ELSE c

\* String.prototype.toLowerCase.
ToLower(s) == [i \in 1..Len(s) |-> LowerChar(s[i])]

\* The characters matched by \s (and removed by trim) in the modelled alphabet.
IsSpace(c) == c \in {" ", "\t", "\n", "\r"}

SetMin(S) == CHOOSE x \in S : \A y \in S : x <= y
SetMax(S) == CHOOSE x \in S : \A y \in S : x >= y

\* String.prototype.trim.
Trim(s) ==
  LET keep == {i \in 1..Len(s) : ~IsSpace(s[i])}
  IN IF keep = {} THEN <<>> ELSE SubSeq(s, SetMin(keep), SetMax(keep))

\* String.prototype.startsWith.
StartsWith(s, p) == Len(s) >= Len(p) /\ SubSeq(s, 1, Len(p)) = p

\* String.prototype.endsWith.
EndsWith(s, p) == Len(s) >= Len(p) /\ SubSeq(s, Len(s) - Len(p) + 1, Len(s)) = p

\* The first index at which sep occurs in s, or 0.
IndexOf(s, sep) ==
  LET at == {i \in 1..(Len(s) - Len(sep) + 1) : SubSeq(s, i, i + Len(sep) - 1) = sep}
  IN IF at = {} THEN 0 ELSE SetMin(at)

\* String.prototype.split with a non-empty string separator.
RECURSIVE Split(_, _)
Split(s, sep) ==
  LET i == IndexOf(s, sep)
  IN IF i = 0 THEN <<s>>
     ELSE <<SubSeq(s, 1, i - 1)>> \o Split(SubSeq(s, i + Len(sep), Len(s)), sep)

\* The concatenation of the strings of a sequence.
RECURSIVE Concat(_)
Concat(ss) == IF ss = <<>> THEN <<>> ELSE Head(ss) \o Concat(Tail(ss))

\* The characters of s that satisfy no removal: s without the characters in drop.
RECURSIVE Without(_, _)
Without(s, drop) ==
  IF s = <<>> THEN <<>>
  ELSE (IF Head(s) \in drop THEN <<>> ELSE <<Head(s)>>) \o Without(Tail(s), drop)

HTTP == <<"h","t","t","p",":","/","/">>
HTTPS == <<"h","t","t","p","s",":","/","/">>
WWWDOT == <<"w","w","w",".">>

\* The absent value: null, undefined and the empty string are all falsy, and the
\* code tests normalizeUrl's result only for truthiness.
Null == <<>>

(***************************************************************************)
(* new URL(s), for the inputs the program gives it: strings that start     *)
(* with http:// or https:// in any letter case.  The WHATWG parser is      *)
(* modelled on the alphabet of letters, '.', '/', ':', '?', '#', white     *)
(* space, the quote and angle characters, and '%' and digits after the     *)
(* authority; '@', '\', '[' and a numeric port or host are outside it.     *)
(* Each stage of the parser is an operator that receives what the stages   *)
(* before it have read.                                                    *)
(***************************************************************************)
\* A host containing one of these is rejected (forbidden host code points).
ForbiddenHostChars == {" ", "<", ">", "%", "\t", "\n", "\r"}

\* The escapes of the path and of the special-query percent-encode sets.
PathEscape(c) ==
  CASE c = " " -> <<"%","2","0">>
    [] c = "\"" -> <<"%","2","2">>
    [] c = "<" -> <<"%","3","C">>
    [] c = ">" -> <<"%","3","E">>
    [] OTHER -> <<c>>

QueryEscape(c) == IF c = "'" THEN <<"%","2","7">> ELSE PathEscape(c)

EncodePath(s) == Concat([i \in 1..Len(s) |-> PathEscape(s[i])])
EncodeQuery(s) == Concat([i \in 1..Len(s) |-> QueryEscape(s[i])])

\* The first index of s holding a character of stops, or Len(s) + 1.
FirstOf(s, stops) ==
  LET at == {i \in 1..Len(s) : s[i] \in stops}
  IN IF at = {} THEN Len(s) + 1 ELSE SetMin(at)

\* s before its first character of stops, and s from that character on.
Before(s, stops) == SubSeq(s, 1, FirstOf(s, stops) - 1)
From(s, stops) == SubSeq(s, FirstOf(s, stops), Len(s))

\* s without its leading run of '/' (the parser ignores extra slashes after the scheme).
RECURSIVE SkipSlashes(_)
SkipSlashes(s) ==
  IF s # <<>> /\ Head(s) = "/" THEN SkipSlashes(Tail(s)) ELSE s

\* The path state: segs are the raw segments between '/', acc the path so far.
\* A '..' segment removes the last segment, a '.' segment adds nothing, and
\* either one in last place leaves an empty last segment.
RECURSIVE PathSegments(_, _)
PathSegments(segs, acc) ==
  IF segs = <<>> THEN acc
  ELSE LET seg == Head(segs)
           last == Len(segs) = 1
           popped == IF acc = <<>> THEN acc ELSE SubSeq(acc, 1, Len(acc) - 1)
       IN IF seg = <<".", ".">>
          THEN PathSegments(Tail(segs), IF last THEN Append(popped, <<>>) ELSE popped)
          ELSE IF seg = <<".">>
          THEN PathSegments(Tail(segs), IF last THEN Append(acc, <<>>) ELSE acc)
          ELSE PathSegments(Tail(segs), Append(acc, EncodePath(seg)))

\* The serialised path: '/' before every segment.
SerializePath(segs) == Concat([i \in 1..Len(segs) |-> <<"/">> \o segs[i]])

\* The pathname for the characters between the authority and the query.
PathOf(rawPath) ==
  SerializePath(PathSegments(Split(IF rawPath = <<>> THEN <<>> ELSE Tail(rawPath),
                                   <<"/">>), <<>>))

\* /^https?:\/\//i.test(s)
HasScheme(s) == StartsWith(ToLower(s), HTTP) \/ StartsWith(ToLower(s), HTTPS)

SchemeOf(s) ==
  IF StartsWith(ToLower(s), HTTPS) THEN <<"h","t","t","p","s">> ELSE <<"h","t","t","p">>

BadUrl == [ok |-> FALSE]

\* The URL record, from the host, the port, the raw path and what follows the path.
UrlRecord(scheme, host, port, rawPath, afterPath) ==
  IF host = <<>> \/ port # <<>> THEN BadUrl
  ELSE IF \E i \in 1..Len(host) : host[i] \in ForbiddenHostChars THEN BadUrl
  ELSE [ok |-> TRUE,
        scheme |-> scheme,
        hostname |-> ToLower(host),
        pathname |-> PathOf(rawPath),
        hasQuery |-> StartsWith(afterPath, <<"?">>),
        query |-> IF StartsWith(afterPath, <<"?">>)
                  THEN EncodeQuery(Tail(Before(afterPath, {"#"}))) ELSE <<>>,
        hash |-> IF From(afterPath, {"#"}) = <<>> THEN <<>>
                 ELSE Tail(From(afterPath, {"#"}))]

\* The authority state and the states after it.
ParseAuthority(scheme, authority, after) ==
  UrlRecord(scheme,
            Before(authority, {":"}),
            IF From(authority, {":"}) = <<>> THEN <<>> ELSE Tail(From(authority, {":"})),
            Before(after, {"?", "#"}),
            From(after, {"?", "#"}))

\* What follows the scheme and its slashes.
ParseAfterScheme(scheme, rest) ==
  ParseAuthority(scheme, Before(rest, {"/", "?", "#"}), From(rest, {"/", "?", "#"}))

\* The scheme state.
ParseUrl(s) ==
  IF ~HasScheme(s) THEN BadUrl
  ELSE ParseAfterScheme(SchemeOf(s), SkipSlashes(SubSeq(s, Len(SchemeOf(s)) + 2, Len(s))))

NewURL(input) == ParseUrl(Without(Trim(input), {"\t", "\n", "\r"}))

\* URL.prototype.toString.
UrlToString(u) ==
  u.scheme \o <<":", "/", "/">> \o u.hostname \o u.pathname
    \o (IF u.hasQuery THEN <<"?">> \o u.query ELSE <<>>)
    \o (IF u.hash # <<>> THEN <<"#">> \o u.hash ELSE <<>>)

\* Lines 15-16: one trailing '/' removed, then lower case.
StripAndLower(normalized) ==
  ToLower(IF EndsWith(normalized, <<"/">>)
          THEN SubSeq(normalized, 1, Len(normalized) - 1)
          ELSE normalized)

\* Lines 12-18 on the parsed candidate.
NormalizeParsed(url) ==
  IF ~url.ok THEN Null ELSE StripAndLower(UrlToString([url EXCEPT !.hash = <<>>]))

\* Line 10.
Candidate(trimmed) == IF HasScheme(trimmed) THEN trimmed ELSE HTTPS \o trimmed

normalizeUrl(input) ==
  IF input = <<>> THEN Null ELSE NormalizeParsed(NewURL(Candidate(Trim(input))))

\* hostname.replace(/^www\./, '').toLowerCase()
StripWww(h) ==
  ToLower(IF StartsWith(h, WWWDOT) THEN SubSeq(h, Len(WWWDOT) + 1, Len(h)) ELSE h)

\* new URL(normalized).hostname.replace(/^www\./, '').toLowerCase()
HostKey(normalized) == StripWww(NewURL(normalized).hostname)

(***************************************************************************)
(* extractUrlsFromText: the matches of                                     *)
(*   /(https?:\/\/[^\s"'<>]+|www\.[^\s"'<>]+)/gi                           *)
(* from left to right, normalised, kept in a Set (first insertion order).  *)
(***************************************************************************)
\* [^\s"'<>]
IsTokenChar(c) == ~IsSpace(c) /\ c \notin {"\"", "'", "<", ">"}

\* The length of the longest run of token characters at the head of s.
TokenRun(s) == FirstOf(s, {c \in {s[i] : i \in 1..Len(s)} : ~IsTokenChar(c)}) - 1

\* The length of the prefix https://, http:// or www. at the head of the lower-cased s.
PrefixLen(low) ==
  IF StartsWith(low, HTTPS) THEN Len(HTTPS)
  ELSE IF StartsWith(low, HTTP) THEN Len(HTTP)
  ELSE IF StartsWith(low, WWWDOT) THEN Len(WWWDOT)
  ELSE 0

\* The match that starts with a prefix of the given length, which needs a token after it.
MatchAfter(prefix, run) == IF prefix = 0 \/ run = 0 THEN 0 ELSE prefix + run

\* The length of the regex's match at the head of s, or 0 when it does not match there.
MatchLen(s) ==
  MatchAfter(PrefixLen(ToLower(s)),
             TokenRun(SubSeq(s, PrefixLen(ToLower(s)) + 1, Len(s))))

\* Lines 28-29 collecting every truthy normalised URL, repeated or not.
SetAddRepeated(found, normalized) ==
  IF normalized = Null THEN found ELSE Append(found, normalized)

\* Lines 28-29: Set.prototype.add of a truthy normalised URL.
SetAdd(found, normalized) ==
  IF normalized = Null \/ (\E i \in 1..Len(found) : found[i] = normalized)
  THEN found ELSE Append(found, normalized)

RECURSIVE ScanMatches(_, _)
\* The scan at the head of s, where the regex matches n characters.
ScanAt(s, found, n) ==
  IF n = 0 THEN ScanMatches(Tail(s), found)
  ELSE ScanMatches(SubSeq(s, n + 1, Len(s)), SetAdd(found, normalizeUrl(SubSeq(s, 1, n))))

ScanMatches(s, found) == IF s = <<>> THEN found ELSE ScanAt(s, found, MatchLen(s))

extractUrlsFromText(text) ==
  IF text = <<>> THEN <<>> ELSE ScanMatches(text, <<>>)

(***************************************************************************)
(* Maps.  A Map object is a function from its keys.                        *)
(***************************************************************************)
EmptyMap == <<>>
MapHas(m, k) == k \in DOMAIN m
MapSet(m, k, v) == [x \in (DOMAIN m) \cup {k} |-> IF x = k THEN v ELSE m[x]]

(***************************************************************************)
(* The parse loop of UrlhausCache.fetchFeed (lines 74-106).                *)
(***************************************************************************)
QUOTE == <<"\"">>
FIELD_SEP == <<"\"", ",", "\"">>
LISTED == <<"l","i","s","t","e","d">>

\* s.replace(/^"/, '') and s.replace(/"$/, '')
StripLeadingQuote(s) == IF StartsWith(s, QUOTE) THEN Tail(s) ELSE s
StripTrailingQuote(s) == IF EndsWith(s, QUOTE) THEN SubSeq(s, 1, Len(s) - 1) ELSE s

\* line.trim().replace(/^"|"$/g, '')
CleanLine(line) == StripTrailingQuote(StripLeadingQuote(Trim(line)))

\* parts[i] of a destructuring assignment: undefined, here Null, beyond the end.
Part(parts, i) == IF i <= Len(parts) THEN parts[i] ELSE Null

\* x || fallback on strings.
OrElse(x, fallback) == IF x = Null THEN fallback ELSE x

\* Lines 92-102 with the bound tested after the push: a list may grow to six.
AddHostOffByOne(maps, host, entry) ==
  [maps EXCEPT !.hostMap =
     MapSet(@, host,
            IF ~MapHas(@, host) THEN <<entry>>
            ELSE IF Len(@[host]) <= HOST_CAP THEN Append(@[host], entry)
            ELSE @[host])]

\* Lines 92-102: the entry pushed on its host's list unless the list is full.
AddHost(maps, host, entry) ==
  [maps EXCEPT !.hostMap =
     MapSet(@, host,
            IF ~MapHas(@, host) THEN <<entry>>
            ELSE IF Len(@[host]) < HOST_CAP THEN Append(@[host], entry)
            ELSE @[host])]

\* Lines 86-105 with the host list keyed by the full hostname, www. kept.
AddEntryFullHost(maps, entry) ==
  IF ~NewURL(entry.url).ok
  THEN [maps EXCEPT !.urlMap = MapSet(@, entry.url, entry)]
  ELSE AddHost([maps EXCEPT !.urlMap = MapSet(@, entry.url, entry)],
               ToLower(NewURL(entry.url).hostname), entry)

\* Lines 86-105 for one entry.
AddEntry(maps, entry) ==
  IF ~NewURL(entry.url).ok
  THEN [maps EXCEPT !.urlMap = MapSet(@, entry.url, entry)]
  ELSE AddHost([maps EXCEPT !.urlMap = MapSet(@, entry.url, entry)],
               HostKey(entry.url), entry)

\* Lines 83-90 for the fields of one line.
AddFields(maps, normalizedUrl, lastOnline, threat) ==
  IF normalizedUrl = Null THEN maps
  ELSE AddEntry(maps, [url |-> normalizedUrl,
                       threat |-> OrElse(threat, LISTED),
                       lastOnline |-> OrElse(lastOnline, Null)])

\* Lines 81-83.
AddParts(maps, parts) ==
  IF Len(parts) < 3 THEN maps
  ELSE AddFields(maps, normalizeUrl(Part(parts, 3)), Part(parts, 5), Part(parts, 6))

\* One feed line folded into the maps under construction (lines 78-80).
ParseLine(maps, line) ==
  IF line = <<>> \/ StartsWith(line, <<"#">>) THEN maps
  ELSE AddParts(maps, Split(CleanLine(line), FIELD_SEP))

RECURSIVE ParseLines(_, _)
ParseLines(maps, lines) ==
  IF lines = <<>> THEN maps
  ELSE ParseLines(ParseLine(maps, Head(lines)), Tail(lines))

\* nextUrlMap and nextHostMap for a response body.
ParseFeed(text) ==
  ParseLines([urlMap |-> EmptyMap, hostMap |-> EmptyMap], Split(text, <<"\n">>))

(***************************************************************************)
(* Bounds of the model, and the inputs the environment draws from.         *)
(***************************************************************************)
\* How many calls of inspectUrl the HTTP layer makes, in any interleaving.
MaxCalls == 2

\* How many calls of inspectText the HTTP layer makes, one after the other.
MaxBatches == 1

\* Date.now() when the service is constructed: far more than the TTL after the epoch.
StartNow == 2 * URLHAUS_TTL_MS

RECURSIVE Join(_, _)
Join(ss, sep) ==
  IF ss = <<>> THEN <<>>
  ELSE IF Len(ss) = 1 THEN ss[1]
  ELSE ss[1] \o sep \o Join(Tail(ss), sep)

\* A record of the URLHaus CSV: id, dateadded, url, url_status, last_online, threat.
CsvLine(fields) == QUOTE \o Join(fields, FIELD_SEP) \o QUOTE

FeedOne ==
  Join(<< <<"#", " ", "i", "d">>,
          CsvLine(<< <<"1">>, <<"d">>, HTTPS \o <<"a", "/", "x">>, <<"o">>, <<"t">>, <<"m">> >>),
          CsvLine(<< <<"2">>, <<"d">> >>),
          CsvLine(<< <<"3">>, <<"d">>, HTTP \o <<"B", "/", "y", "/">>, <<"o">> >>),
          <<>> >>, <<"\n">>)

FeedTwo ==
  Join(<< CsvLine(<< <<"4">>, <<"d">>, HTTPS \o <<"a", "/", "z">>, <<"o">>, <<"t">>, <<"p">> >>),
          CsvLine(<< <<"5">>, <<"d">>, <<"n", " ", "u">>, <<"o">>, <<"t">>, <<"p">> >>) >>,
       <<"\n">>)

\* The bodies the bulk-feed endpoint may answer with.
FeedBodies == {FeedOne, FeedTwo}

\* How many lines a generated bulk feed has at most.
MaxFeedLines == 6

\* The kinds of line of a generated feed, each with the entry it stands for and
\* the host that entry is indexed under: a URL of host a, a URL of www.a with
\* neither last_online nor threat, and a URL of host b without scheme.
LineKinds ==
  << [line |-> CsvLine(<< <<"1">>, <<"d">>, HTTPS \o <<"a", "/", "x">>, <<"o">>, <<"t">>, <<"m">> >>),
      host |-> <<"a">>,
      entry |-> [url |-> HTTPS \o <<"a", "/", "x">>, threat |-> <<"m">>,
                 lastOnline |-> <<"t">>]],
     [line |-> CsvLine(<< <<"2">>, <<"d">>, HTTP \o <<"W", "W", "W", ".", "a", "/", "y", "/">>,
                          <<"o">> >>),
      host |-> <<"a">>,
      entry |-> [url |-> HTTP \o <<"w", "w", "w", ".", "a", "/", "y">>, threat |-> LISTED,
                 lastOnline |-> Null]],
     [line |-> CsvLine(<< <<"3">>, <<"d">>, <<"b">>, <<"o">>, <<"u">>, <<"p">> >>),
      host |-> <<"b">>,
      entry |-> [url |-> HTTPS \o <<"b">>, threat |-> <<"p">>, lastOnline |-> <<"u">>]] >>

\* The generated feeds, each as the kinds of its lines.
LineSeqs == UNION {[1..n -> 1..Len(LineKinds)] : n \in 0..MaxFeedLines}

\* The body of a generated feed.
FeedText(kinds) == Join([i \in 1..Len(kinds) |-> LineKinds[kinds[i]].line], <<"\n">>)

\* The bodies the bulk-feed endpoint may answer with when its lines are generated.
ManyFeedBodies == {FeedText(kinds) : kinds \in LineSeqs}

\* The bodies the real-time endpoint may answer with.
PhishBodies == {<<"t", "r", "u", "e">>, <<"F", "a", "l", "s", "e", "\n">>}

\* The statuses a remote may answer with.
Statuses == {200, 500}

\* The arguments of inspectUrl: a listed URL without scheme, and no URL at all.
UrlInputs ==
  { <<"A", "/", "x", "/">>,
    <<"n", " ", "u">> }

\* Three URLs, the third a respelling of the first.
TextTwo ==
  <<"s", "e", "e", " ">> \o HTTP \o <<"b", "/", "y">> \o <<" ", "<">>
    \o <<"W", "W", "W", ".", "c">> \o <<">", " ">> \o HTTP \o <<"B", "/", "y", "/", "#", "k">>

\* Seven distinct URLs, one more than MAX_TEXT_URLS; the first one's host is listed.
TextSeven ==
  Join([i \in 1..7 |-> WWWDOT \o <<<<"a", "b", "c", "d", "e", "f", "g">>[i]>>], <<" ">>)

\* No URL at all.
TextNone == <<"h", "i">>

\* The arguments of inspectText.
TextInputs == {TextNone, TextTwo, TextSeven}

\* How many characters a generated argument of inspectUrl has at most.
MaxChars == 4

\* The generated arguments of inspectUrl: the non-empty strings of a host letter,
\* an upper-case letter, '/' and '?'.
ManyUrls == UNION {[1..n -> {"a", "B", "/", "?"}] : n \in 1..MaxChars}

\* How many words a generated text has at most.
MaxWords == 4

\* The kinds of word of a generated text, each with the normalized URL extraction
\* finds in it (Null: none): a URL, a respelling of it, a www. host, a match of
\* the pattern that is no URL, and a word that is no match.
WordKinds ==
  << [word |-> HTTP \o <<"a">>, url |-> HTTP \o <<"a">>],
     [word |-> <<"H", "T", "T", "P", ":", "/", "/", "A", "/">>, url |-> HTTP \o <<"a">>],
     [word |-> WWWDOT \o <<"b">>, url |-> HTTPS \o WWWDOT \o <<"b">>],
     [word |-> HTTP \o <<"a", ":", "b">>, url |-> Null],
     [word |-> <<"s", "e", "e">>, url |-> Null] >>

\* The generated texts, each as the kinds of its words.
WordSeqs == UNION {[1..n -> 1..Len(WordKinds)] : n \in 1..MaxWords}

\* The words of a generated text, separated by spaces.
TextOf(kinds) == Join([i \in 1..Len(kinds) |-> WordKinds[kinds[i]].word], <<" ">>)

\* The generated arguments of inspectText.
ManyTexts == {TextOf(kinds) : kinds \in WordSeqs}

\* What the remotes answer while a batch is studied: a success or nothing.
BatchStatuses == {200}
BatchPhishBodies == {<<"t", "r", "u", "e">>}
BatchFeedBodies == {FeedOne}

(***************************************************************************)
(* The state.  Only what the program still holds is kept: a call that has  *)
(* returned and a refresh that has settled leave the state, and are shown  *)
(* for one step in delivered and settled.                                  *)
(***************************************************************************)
VARIABLES
  now,        \* Date.now()
  cache,      \* the UrlhausCache: lastFetched, loading, urlMap, hostMap
  heap,       \* the Map objects still referenced, by reference
  refreshes,  \* the pending fetchFeed() invocations, by the number of their fetch
  fetches,    \* how many bulk-feed fetches have been started
  calls,      \* the pending calls from the HTTP layer, each with its inspectUrl tasks
  issued,     \* how many calls the HTTP layer has made
  delivered,  \* the calls that returned in the last step
  settled     \* the refreshes that settled in the last step

vars == <<now, cache, heap, refreshes, fetches, calls, issued, delivered, settled>>

PHISH_SOURCE == "phish.sinking.yachts"
URLHAUS_SOURCE == "URLHaus (online feed)"
URLHAUS_NAME == "URLHaus"
INVALID_URL == "Invalid URL"
ENTER_VALID_URL == "Enter a valid URL (example: https://example.com)."
LOOKUP_FAILED == "Lookup failed"
ABORTED == "This operation was aborted"
FETCH_FAILED == "fetch failed"

NoSnapshot == [urlMap |-> 0, hostMap |-> 0, refreshedAt |-> 0]
NoCheck == [source |-> URLHAUS_SOURCE, refreshedAt |-> 0, listed |-> FALSE, matches |-> <<>>]
NoResult == [ok |-> FALSE, error |-> ""]

Settled(p) == p.state \in {"fulfilled", "rejected"}
InFlight(p) == p.state \in {"headers", "body"}

\* f without key k, and the keys of f as a function.
MapDelete(f, k) == [x \in (DOMAIN f) \ {k} |-> f[x]]

(***************************************************************************)
(* fetchWithTimeout (lines 34-43).  A request is in state "headers" until  *)
(* fetch() settles and in state "body" while resp.text() is pending.       *)
(***************************************************************************)
\* Lines 35-38: the timer is armed and the request sent.
fetchWithTimeout(req, t) ==
  [req EXCEPT !.state = "headers", !.timer = t + FETCH_TIMEOUT_MS]

\* Lines 39-42: fetch() has settled, and the finally block clears the timer.
fetchSettled(req) == [req EXCEPT !.timer = 0]

\* resp.ok
RespOk(status) == status >= 200 /\ status <= 299

StatusDigits(status) == IF status = 200 THEN "200" ELSE "500"

(***************************************************************************)
(* UrlhausCache (lines 45-142).                                            *)
(***************************************************************************)
\* isFresh with the boundary on the wrong side.
isFreshInclusive(c, t) == t - c.lastFetched <= URLHAUS_TTL_MS

isFresh(c, t) == t - c.lastFetched < URLHAUS_TTL_MS

\* fetchFeed up to its first await (lines 69-71).
fetchFeedStart(t) ==
  fetchWithTimeout([state |-> "headers", timer |-> 0, body |-> Null,
                    snapshot |-> NoSnapshot, error |-> ""], t)

\* load answering from the installed maps while a refresh is in flight.
loadWhileRevalidating(st, t) ==
  IF isFresh(st.cache, t) \/ st.cache.loading # 0
  THEN [st EXCEPT !.on = 0,
                  !.snapshot = [urlMap |-> st.cache.urlMap, hostMap |-> st.cache.hostMap,
                                refreshedAt |-> st.cache.lastFetched]]
  ELSE [st EXCEPT !.cache.loading = st.fetches + 1,
                  !.refreshes = MapSet(@, st.fetches + 1, fetchFeedStart(t)),
                  !.fetches = @ + 1,
                  !.on = st.fetches + 1,
                  !.snapshot = NoSnapshot]

\* load without lines 61-63: a refresh in flight is not joined.
loadAlways(st, t) ==
  IF isFresh(st.cache, t)
  THEN [st EXCEPT !.on = 0,
                  !.snapshot = [urlMap |-> st.cache.urlMap, hostMap |-> st.cache.hostMap,
                                refreshedAt |-> st.cache.lastFetched]]
  ELSE [st EXCEPT !.cache.loading = st.fetches + 1,
                  !.refreshes = MapSet(@, st.fetches + 1, fetchFeedStart(t)),
                  !.fetches = @ + 1,
                  !.on = st.fetches + 1,
                  !.snapshot = NoSnapshot]

\* load (lines 57-67): the snapshot when fresh (on = 0), else the refresh to await.
\* st holds the cache, the pending refreshes and the number of fetches.
load(st, t) ==
  IF isFresh(st.cache, t)
  THEN [st EXCEPT !.on = 0,
                  !.snapshot = [urlMap |-> st.cache.urlMap, hostMap |-> st.cache.hostMap,
                                refreshedAt |-> st.cache.lastFetched]]
  ELSE IF st.cache.loading # 0
  THEN [st EXCEPT !.on = st.cache.loading, !.snapshot = NoSnapshot]
  ELSE [st EXCEPT !.cache.loading = st.fetches + 1,
                  !.refreshes = MapSet(@, st.fetches + 1, fetchFeedStart(t)),
                  !.fetches = @ + 1,
                  !.on = st.fetches + 1,
                  !.snapshot = NoSnapshot]

\* new Map(): a reference no live object has.
NewRef(used) == SetMin((1..(Cardinality(used) + 1)) \ used)

\* Lines 108-113 without line 111: the marker stays set.
fetchFeedInstallMarked(h, parsed, t, urlRef, hostRef) ==
  [cache |-> [urlMap |-> urlRef, hostMap |-> hostRef, lastFetched |-> t,
              loading |-> cache.loading],
   heap |-> MapSet(MapSet(h, urlRef, parsed.urlMap), hostRef, parsed.hostMap),
   snapshot |-> [urlMap |-> urlRef, hostMap |-> hostRef, refreshedAt |-> t]]

\* Lines 108-113 with the two new Map objects at urlRef and hostRef.
fetchFeedInstallAt(h, parsed, t, urlRef, hostRef) ==
  [cache |-> [urlMap |-> urlRef, hostMap |-> hostRef, lastFetched |-> t, loading |-> 0],
   heap |-> MapSet(MapSet(h, urlRef, parsed.urlMap), hostRef, parsed.hostMap),
   snapshot |-> [urlMap |-> urlRef, hostMap |-> hostRef, refreshedAt |-> t]]

\* The install done by clearing and refilling the Map objects the cache already has.
fetchFeedInPlace(c, h, parsed, t) ==
  fetchFeedInstallAt(h, parsed, t, c.urlMap, c.hostMap)

\* Lines 74-75 and 108-113: the new maps, the timestamp and the cleared marker.
fetchFeedInstall(c, h, parsed, t) ==
  fetchFeedInstallAt(h, parsed, t, NewRef(DOMAIN h),
                     NewRef((DOMAIN h) \cup {NewRef(DOMAIN h)}))

\* The catch block without line 115.
fetchFeedFailKeepsMarker(c) == c

\* Lines 114-117: the catch block.
fetchFeedFail(c) == [c EXCEPT !.loading = 0]

WithMatchType(entry, type) ==
  [url |-> entry.url, threat |-> entry.threat, lastOnline |-> entry.lastOnline,
   matchType |-> type]

\* Lines 135-140.
checkReturn(refreshedAt, matches) ==
  [source |-> URLHAUS_SOURCE,
   refreshedAt |-> refreshedAt,
   listed |-> Len(matches) > 0,
   matches |-> SubSeq(matches, 1, IF Len(matches) < MATCH_CAP THEN Len(matches)
                                  ELSE MATCH_CAP)]

\* Lines 128-133 with the host hits pushed before the direct match.
checkMatchesHostFirst(urlMap, hostMap, normalized, hostKey) ==
  (IF MapHas(hostMap, hostKey)
   THEN [i \in 1..Len(hostMap[hostKey]) |-> WithMatchType(hostMap[hostKey][i], "host")]
   ELSE <<>>)
  \o (IF MapHas(urlMap, normalized)
      THEN <<WithMatchType(urlMap[normalized], "url")>> ELSE <<>>)

\* Lines 128-133.
checkMatches(urlMap, hostMap, normalized, hostKey) ==
  (IF MapHas(urlMap, normalized)
   THEN <<WithMatchType(urlMap[normalized], "url")>> ELSE <<>>)
  \o (IF MapHas(hostMap, hostKey)
      THEN [i \in 1..Len(hostMap[hostKey]) |-> WithMatchType(hostMap[hostKey][i], "host")]
      ELSE <<>>)

\* check after its await (lines 128-140).
checkResult(h, snap, normalized, hostKey) ==
  checkReturn(snap.refreshedAt,
              checkMatches(h[snap.urlMap], h[snap.hostMap], normalized, hostKey))

NoUrlhaus == [state |-> "none", on |-> 0, snapshot |-> NoSnapshot, key |-> Null,
              hostKey |-> Null, result |-> NoCheck, error |-> ""]

\* Line 126: what load() gave, and the rest of check when that is a snapshot.
checkLoaded(h, normalized, hostKey, st) ==
  [st EXCEPT !.urlhaus =
     IF st.on = 0
     THEN [NoUrlhaus EXCEPT !.state = "fulfilled", !.snapshot = st.snapshot,
                            !.key = normalized, !.hostKey = hostKey,
                            !.result = checkResult(h, st.snapshot, normalized, hostKey)]
     ELSE [NoUrlhaus EXCEPT !.state = "awaiting", !.on = st.on,
                            !.key = normalized, !.hostKey = hostKey]]

\* Lines 122-126.
checkNormalized(st, h, normalized, t) ==
  IF normalized = Null \/ ~NewURL(normalized).ok
  THEN [st EXCEPT !.urlhaus = [NoUrlhaus EXCEPT !.state = "rejected",
                                                !.error = INVALID_URL]]
  ELSE checkLoaded(h, normalized, HostKey(normalized), load(st, t))

\* check up to its await (lines 120-126), and past it when load() gave a snapshot.
checkStart(st, h, inputUrl, t) == checkNormalized(st, h, normalizeUrl(inputUrl), t)

\* The continuation of every check, among the tasks ts, that awaits refresh r,
\* once r has settled as refresh.
checkResume(ts, r, refresh, h) ==
  [i \in 1..Len(ts) |->
     IF ts[i].urlhaus.state = "awaiting" /\ ts[i].urlhaus.on = r
     THEN IF refresh.state = "fulfilled"
          THEN [ts[i] EXCEPT !.urlhaus.state = "fulfilled",
                             !.urlhaus.snapshot = refresh.snapshot,
                             !.urlhaus.result =
                               checkResult(h, refresh.snapshot, ts[i].urlhaus.key,
                                           ts[i].urlhaus.hostKey)]
          ELSE [ts[i] EXCEPT !.urlhaus.state = "rejected",
                             !.urlhaus.error = refresh.error]
     ELSE ts[i]]

(***************************************************************************)
(* OsintService (lines 144-222).                                           *)
(***************************************************************************)
NoPhish == [state |-> "none", timer |-> 0, target |-> Null, flagged |-> FALSE, error |-> ""]

\* Lines 151-158.
checkPhishFeedNormalized(normalized, t) ==
  IF normalized = Null \/ ~NewURL(normalized).ok
  THEN [NoPhish EXCEPT !.state = "rejected", !.error = INVALID_URL]
  ELSE fetchWithTimeout([NoPhish EXCEPT !.target = ToLower(NewURL(normalized).hostname)], t)

\* checkPhishFeed up to its await (lines 149-158).
checkPhishFeedStart(targetUrl, t) == checkPhishFeedNormalized(normalizeUrl(targetUrl), t)

\* Lines 160-164 on a response body.
checkPhishFeedBody(p, body) ==
  [p EXCEPT !.state = "fulfilled", !.flagged = (ToLower(Trim(body)) = <<"t", "r", "u", "e">>)]

NoTask == [rawUrl |-> Null, normalizedUrl |-> Null, host |-> Null,
           state |-> "returned", phish |-> NoPhish, urlhaus |-> NoUrlhaus,
           result |-> NoResult]

\* Lines 177-180: the two checks started, the task left pending.
inspectStarted(task, phish, st) ==
  [st EXCEPT !.tasks = Append(@, [task EXCEPT !.state = "pending", !.phish = phish,
                                              !.urlhaus = st.urlhaus])]

\* inspectUrl without lines 169-172.
inspectUnvalidated(st, h, rawUrl, normalizedUrl, t) ==
  inspectStarted([NoTask EXCEPT !.rawUrl = rawUrl, !.normalizedUrl = normalizedUrl],
                 checkPhishFeedStart(rawUrl, t),
                 checkStart(st, h, rawUrl, t))

\* Lines 169-180.
inspectNormalized(st, h, rawUrl, normalizedUrl, t) ==
  IF normalizedUrl = Null
  THEN [st EXCEPT !.tasks =
          Append(@, [NoTask EXCEPT !.rawUrl = rawUrl,
                                   !.result = [ok |-> FALSE, error |-> ENTER_VALID_URL]])]
  ELSE IF ~NewURL(normalizedUrl).ok
  THEN [st EXCEPT !.tasks =
          Append(@, [NoTask EXCEPT !.rawUrl = rawUrl,
                                   !.normalizedUrl = normalizedUrl, !.state = "threw",
                                   !.result = [ok |-> FALSE, error |-> INVALID_URL]])]
  ELSE inspectStarted([NoTask EXCEPT !.rawUrl = rawUrl,
                                     !.normalizedUrl = normalizedUrl,
                                     !.host = HostKey(normalizedUrl)],
                      checkPhishFeedStart(normalizedUrl, t),
                      checkStart(st, h, normalizedUrl, t))

\* inspectUrl up to its await (lines 167-180), appended to the tasks as one record.
inspectUrlStart(st, h, rawUrl, t) ==
  inspectNormalized(st, h, rawUrl, normalizeUrl(rawUrl), t)

\* x?.message || 'Lookup failed'
MessageOf(error) == IF error = "" THEN LOOKUP_FAILED ELSE error

\* The merge as Promise.all would leave it: one failed source fails the whole.
mergeFailFast(task, t) ==
  IF task.phish.state = "fulfilled" /\ task.urlhaus.state = "fulfilled"
  THEN [ok |-> TRUE, host |-> task.host, normalizedUrl |-> task.normalizedUrl,
        sources |-> [phishFeed |-> [source |-> PHISH_SOURCE, flagged |-> task.phish.flagged],
                     urlhaus |-> task.urlhaus.result],
        fetchedAt |-> t]
  ELSE [ok |-> FALSE, error |-> LOOKUP_FAILED]

\* Lines 182-199: the merge of the two settled outcomes.
mergeSources(task, t) ==
  [ok |-> TRUE,
   host |-> task.host,
   normalizedUrl |-> task.normalizedUrl,
   sources |->
     [phishFeed |-> IF task.phish.state = "fulfilled"
                    THEN [source |-> PHISH_SOURCE, flagged |-> task.phish.flagged]
                    ELSE [source |-> PHISH_SOURCE, error |-> MessageOf(task.phish.error)],
      urlhaus |-> IF task.urlhaus.state = "fulfilled"
                  THEN task.urlhaus.result
                  ELSE [source |-> URLHAUS_NAME, error |-> MessageOf(task.urlhaus.error)]],
   fetchedAt |-> t]

\* Promise.allSettled (lines 177-180): settled once both are.
allSettled(task) == Settled(task.phish) /\ Settled(task.urlhaus)

\* The continuation of every inspectUrl, among the tasks ts, whose two checks have settled.
inspectUrlResume(ts, t) ==
  [i \in 1..Len(ts) |->
     IF ts[i].state = "pending" /\ allSettled(ts[i])
     THEN [ts[i] EXCEPT !.state = "returned", !.result = mergeSources(ts[i], t)]
     ELSE ts[i]]

\* Promise.race in place of Promise.all: settled once one is.
promiseAny(ts) == \E i \in 1..Len(ts) : ts[i].state # "pending"

\* Promise.all over the guarded per-URL calls (lines 205-213): settled once all are.
promiseAll(ts) == \A i \in 1..Len(ts) : ts[i].state # "pending"

\* Lines 206-212: the guard around one inspectUrl.
guarded(task) ==
  IF task.state = "threw"
  THEN [ok |-> FALSE, error |-> MessageOf(task.result.error), url |-> task.rawUrl]
  ELSE task.result

\* Lines 215-220 counting the capped list.
inspectTextResultCapped(call) ==
  [ok |-> TRUE,
   urls |-> [i \in 1..Len(call.tasks) |-> guarded(call.tasks[i])],
   truncated |-> call.found > Len(call.tasks),
   found |-> Len(call.tasks)]

\* Lines 215-220.
inspectTextResult(call) ==
  [ok |-> TRUE,
   urls |-> [i \in 1..Len(call.tasks) |-> guarded(call.tasks[i])],
   truncated |-> call.found > Len(call.tasks),
   found |-> call.found]

\* The call returns once its work has settled: inspectText with lines 215-220,
\* inspectUrl with what its one task returned or threw.
callReturn(call) ==
  IF ~promiseAll(call.tasks) THEN call
  ELSE IF call.kind = "text"
  THEN [call EXCEPT !.state = "returned", !.result = inspectTextResult(call)]
  ELSE [call EXCEPT !.state = call.tasks[1].state, !.result = call.tasks[1].result]

\* Every continuation of the calls cs that can run, run.
callsResume(cs, t) ==
  [c \in 1..Len(cs) |-> callReturn([cs[c] EXCEPT !.tasks = inspectUrlResume(@, t)])]

\* limited.map(...) (lines 204-206): one inspectUrl after the other, each up to its await.
RECURSIVE inspectAll(_, _, _, _)
inspectAll(st, h, urls, t) ==
  IF urls = <<>> THEN st
  ELSE inspectAll(inspectUrlStart(st, h, Head(urls), t), h, Tail(urls), t)

\* urls.slice(0, MAX_TEXT_URLS)
Limited(urls) ==
  SubSeq(urls, 1, IF Len(urls) < MAX_TEXT_URLS THEN Len(urls) ELSE MAX_TEXT_URLS)

(***************************************************************************)
(* The actions: one per macrotask.                                         *)
(***************************************************************************)
Init ==
  /\ now = StartNow
  /\ cache = [lastFetched |-> 0, loading |-> 0, urlMap |-> 1, hostMap |-> 2]
  /\ heap = <<EmptyMap, EmptyMap>>
  /\ refreshes = <<>>
  /\ fetches = 0
  /\ calls = <<>>
  /\ issued = 0
  /\ delivered = <<>>
  /\ settled = <<>>

IsPending(call) == call.state = "pending"
IsDone(call) == call.state # "pending"

\* The tasks of the calls cs.
TasksOf(cs) == UNION {{cs[c].tasks[i] : i \in 1..Len(cs[c].tasks)} : c \in 1..Len(cs)}

\* The Map references held by the cache c and by the pending tasks of the calls cs.
LiveRefs(c, cs) ==
  {c.urlMap, c.hostMap}
    \cup UNION {{task.urlhaus.snapshot.urlMap, task.urlhaus.snapshot.hostMap} :
                  task \in {x \in TasksOf(cs) : x.urlhaus.state = "fulfilled"}}

\* The cache is c, the heap h without its garbage, and the calls are cs: those
\* that have returned are delivered.
Deliver(cs, c, h) ==
  /\ calls' = SelectSeq(cs, IsPending)
  /\ delivered' = SelectSeq(cs, IsDone)
  /\ cache' = c
  /\ heap' = [ref \in LiveRefs(c, SelectSeq(cs, IsPending)) |-> h[ref]]

\* The macrotask ends: every continuation that can run has run.
Commit(cs, c, h) == Deliver(callsResume(cs, now), c, h)

\* A call is issued: st is the state its synchronous part leaves.
Issue(st, call) ==
  /\ refreshes' = st.refreshes
  /\ fetches' = st.fetches
  /\ issued' = issued + 1
  /\ settled' = <<>>
  /\ Commit(Append(calls, [call EXCEPT !.tasks = st.tasks]), st.cache, heap)
  /\ UNCHANGED now

\* What the synchronous part of a call starts from.
Start ==
  [cache |-> cache, refreshes |-> refreshes, fetches |-> fetches, tasks |-> <<>>,
   on |-> 0, snapshot |-> NoSnapshot, urlhaus |-> NoUrlhaus]

NewCall(kind, input, found) ==
  [id |-> issued + 1, kind |-> kind, input |-> input, found |-> found, tasks |-> <<>>,
   state |-> "pending", result |-> NoResult]

\* POST /api/osint/link: osintService.inspectUrl(rawUrl).
InspectUrl(rawUrl) ==
  Issue(inspectUrlStart(Start, heap, rawUrl, now), NewCall("url", rawUrl, 0))

\* Lines 204-213 for the extracted urls.
InspectExtracted(text, urls) ==
  Issue(inspectAll(Start, heap, Limited(urls), now), NewCall("text", text, Len(urls)))

\* POST /api/osint/text: osintService.inspectText(text).
InspectText(text) == InspectExtracted(text, extractUrlsFromText(text))

\* The real-time request of task i of call c changes to p.
PhishStep(c, i, p) ==
  /\ Commit([calls EXCEPT ![c].tasks[i].phish = p], cache, heap)
  /\ settled' = <<>>
  /\ UNCHANGED <<now, refreshes, fetches, issued>>

\* The real-time endpoint answers with a status line.
PhishHeaders(c, i, status) ==
  /\ calls[c].tasks[i].phish.state = "headers"
  /\ PhishStep(c, i, IF RespOk(status)
                     THEN [fetchSettled(calls[c].tasks[i].phish) EXCEPT !.state = "body"]
                     ELSE [fetchSettled(calls[c].tasks[i].phish) EXCEPT
                             !.state = "rejected",
                             !.error = "phish.sinking.yachts responded with "
                                         \o StatusDigits(status)])

\* The timer of a real-time request fires: controller.abort().
PhishTimeout(c, i) ==
  /\ calls[c].tasks[i].phish.timer # 0
  /\ now >= calls[c].tasks[i].phish.timer
  /\ PhishStep(c, i, [fetchSettled(calls[c].tasks[i].phish) EXCEPT !.state = "rejected",
                                                                  !.error = ABORTED])

\* The real-time endpoint completes its response body.
PhishBody(c, i, body) ==
  /\ calls[c].tasks[i].phish.state = "body"
  /\ PhishStep(c, i, checkPhishFeedBody(calls[c].tasks[i].phish, body))

\* The connection of a real-time request breaks.
PhishNetworkError(c, i) ==
  /\ InFlight(calls[c].tasks[i].phish)
  /\ PhishStep(c, i, [fetchSettled(calls[c].tasks[i].phish) EXCEPT !.state = "rejected",
                                                                  !.error = FETCH_FAILED])

\* Refresh r has settled as refresh, leaving the cache c and the heap h: every
\* check that awaits it resumes.
FeedSettle(r, refresh, c, h) ==
  /\ refreshes' = MapDelete(refreshes, r)
  /\ settled' = <<[refresh EXCEPT !.id = r]>>
  /\ Commit([k \in 1..Len(calls) |->
               [calls[k] EXCEPT !.tasks = checkResume(@, r, refresh, h)]], c, h)
  /\ UNCHANGED <<now, fetches, issued>>

\* What is shown of a settled refresh.
Outcome(refresh, state, error) ==
  [id |-> 0, state |-> state, error |-> error, body |-> refresh.body,
   snapshot |-> refresh.snapshot]

\* Refresh r fails with message and the feed is fetched again on the spot, the
\* awaiting checks kept waiting for the new request.
FeedFailRetried(r, message) ==
  /\ refreshes' = MapSet(MapDelete(refreshes, r), fetches + 1, fetchFeedStart(now))
  /\ fetches' = fetches + 1
  /\ cache' = [cache EXCEPT !.loading = fetches + 1]
  /\ calls' = [k \in 1..Len(calls) |->
                [calls[k] EXCEPT !.tasks =
                   [i \in 1..Len(calls[k].tasks) |->
                      IF calls[k].tasks[i].urlhaus.on = r
                      THEN [calls[k].tasks[i] EXCEPT !.urlhaus.on = fetches + 1]
                      ELSE calls[k].tasks[i]]]]
  /\ delivered' = <<>>
  /\ settled' = <<>>
  /\ UNCHANGED <<now, heap, issued>>

\* Refresh r fails with message: the catch block, then every awaiting continuation.
FeedFail(r, message) ==
  FeedSettle(r, Outcome(refreshes[r], "rejected", message), fetchFeedFail(cache), heap)

\* The bulk-feed endpoint answers with a status line.
FeedHeaders(r, status) ==
  /\ refreshes[r].state = "headers"
  /\ IF RespOk(status)
     THEN /\ refreshes' = [refreshes EXCEPT ![r] = [fetchSettled(@) EXCEPT !.state = "body"]]
          /\ delivered' = <<>>
          /\ settled' = <<>>
          /\ UNCHANGED <<now, cache, heap, fetches, calls, issued>>
     ELSE FeedFail(r, "URLHaus responded with " \o StatusDigits(status))

\* The timer of a bulk-feed request fires: controller.abort().
FeedTimeout(r) ==
  /\ refreshes[r].timer # 0
  /\ now >= refreshes[r].timer
  /\ FeedFail(r, ABORTED)

\* The connection of a bulk-feed request breaks.
FeedNetworkError(r) ==
  /\ InFlight(refreshes[r])
  /\ FeedFail(r, FETCH_FAILED)

\* Lines 108-113 done, with inst what they installed.
FeedInstalled(r, body, inst) ==
  FeedSettle(r, Outcome([refreshes[r] EXCEPT !.body = body, !.snapshot = inst.snapshot],
                        "fulfilled", ""),
             inst.cache, inst.heap)

\* Lines 74-106 on each body the endpoint may answer with.
ParsedFeeds == [body \in FeedBodies |-> ParseFeed(body)]

\* Lines 74-106 on a body.
Parsed(body) == IF body \in FeedBodies THEN ParsedFeeds[body] ELSE ParseFeed(body)

\* The bulk-feed endpoint completes its response body: parse, install, resume.
FeedBody(r, body) ==
  /\ refreshes[r].state = "body"
  /\ FeedInstalled(r, body, fetchFeedInstall(cache, heap, Parsed(body), now))

\* The deadlines of the armed timers.
ArmedTimers ==
  ({refreshes[r].timer : r \in DOMAIN refreshes}
     \cup {task.phish.timer : task \in TasksOf(calls)}) \ {0}

\* Time passes until the next armed timer is due.
TimerDue ==
  /\ \E d \in ArmedTimers : d > now
  /\ now' = SetMin({d \in ArmedTimers : d > now})
  /\ delivered' = <<>>
  /\ settled' = <<>>
  /\ UNCHANGED <<cache, heap, refreshes, fetches, calls, issued>>

\* Time passes until the snapshot is URLHAUS_TTL_MS old.
SnapshotExpires ==
  /\ isFresh(cache, now)
  /\ now' = cache.lastFetched + URLHAUS_TTL_MS
  /\ delivered' = <<>>
  /\ settled' = <<>>
  /\ UNCHANGED <<cache, heap, refreshes, fetches, calls, issued>>

\* The service under calls of POST /api/osint/link.
Next ==
  \/ issued < MaxCalls /\ \E rawUrl \in UrlInputs : InspectUrl(rawUrl)
  \/ \E c \in 1..Len(calls) : \E i \in 1..Len(calls[c].tasks), status \in Statuses :
       PhishHeaders(c, i, status)
  \/ \E c \in 1..Len(calls) : \E i \in 1..Len(calls[c].tasks) : PhishTimeout(c, i)
  \/ \E c \in 1..Len(calls) : \E i \in 1..Len(calls[c].tasks), body \in PhishBodies :
       PhishBody(c, i, body)
  \/ \E c \in 1..Len(calls) : \E i \in 1..Len(calls[c].tasks) : PhishNetworkError(c, i)
  \/ \E r \in DOMAIN refreshes, status \in Statuses : FeedHeaders(r, status)
  \/ \E r \in DOMAIN refreshes : FeedTimeout(r)
  \/ \E r \in DOMAIN refreshes : FeedNetworkError(r)
  \/ \E r \in DOMAIN refreshes, body \in FeedBodies : FeedBody(r, body)
  \/ TimerDue
  \/ SnapshotExpires

Spec == Init /\ [][Next]_vars

\* The runtime fires a timer that is due, and time does not stop before an armed one.
TimersFire ==
  \/ TimerDue
  \/ \E c \in 1..Len(calls) : \E i \in 1..Len(calls[c].tasks) : PhishTimeout(c, i)
  \/ \E r \in DOMAIN refreshes : FeedTimeout(r)

\* Spec with the timers guaranteed; what the remotes do is not.
FairSpec == Spec /\ WF_vars(TimersFire)

\* The service under calls of POST /api/osint/text, one batch after the other.
NextBatch ==
  \/ issued < MaxBatches /\ calls = <<>> /\ \E text \in TextInputs : InspectText(text)
  \/ \E c \in 1..Len(calls) : \E i \in 1..Len(calls[c].tasks), status \in BatchStatuses :
       PhishHeaders(c, i, status)
  \/ \E c \in 1..Len(calls) : \E i \in 1..Len(calls[c].tasks) : PhishTimeout(c, i)
  \/ \E c \in 1..Len(calls) : \E i \in 1..Len(calls[c].tasks), body \in BatchPhishBodies :
       PhishBody(c, i, body)
  \/ \E r \in DOMAIN refreshes, status \in BatchStatuses : FeedHeaders(r, status)
  \/ \E r \in DOMAIN refreshes : FeedTimeout(r)
  \/ \E r \in DOMAIN refreshes, body \in BatchFeedBodies : FeedBody(r, body)
  \/ TimerDue

SpecBatch == Init /\ [][NextBatch]_vars

\* The service up to its first refresh, the bulk feed answering with generated lines.
NextFeed ==
  \/ issued < MaxCalls /\ fetches = 0 /\ \E rawUrl \in UrlInputs : InspectUrl(rawUrl)
  \/ \E r \in DOMAIN refreshes, status \in BatchStatuses : FeedHeaders(r, status)
  \/ \E r \in DOMAIN refreshes, body \in ManyFeedBodies : FeedBody(r, body)

SpecFeed == Init /\ [][NextFeed]_vars

\* A call of POST /api/osint/link, then calls of POST /api/osint/text, one at a
\* time, while the feed is being fetched, installed, or has aged; the requests
\* end by their connections breaking.
NextWarm ==
  \/ issued = 0 /\ \E rawUrl \in UrlInputs : InspectUrl(rawUrl)
  \/ /\ issued >= 1
     /\ issued < 1 + MaxBatches
     /\ \A c \in 1..Len(calls) : calls[c].kind = "url"
     /\ \E text \in TextInputs : InspectText(text)
  \/ \E c \in 1..Len(calls) : \E i \in 1..Len(calls[c].tasks) : PhishNetworkError(c, i)
  \/ \E r \in DOMAIN refreshes, status \in BatchStatuses : FeedHeaders(r, status)
  \/ \E r \in DOMAIN refreshes, body \in BatchFeedBodies : FeedBody(r, body)
  \/ \E r \in DOMAIN refreshes : FeedNetworkError(r)
  \/ SnapshotExpires

SpecWarm == Init /\ [][NextWarm]_vars

\* The first call of the HTTP layer, its argument generated.
NextInputs ==
  \/ issued = 0 /\ \E rawUrl \in ManyUrls : InspectUrl(rawUrl)
  \/ issued = 0 /\ \E text \in ManyTexts : InspectText(text)

SpecInputs == Init /\ [][NextInputs]_vars

(***************************************************************************)
(* The properties.                                                         *)
(***************************************************************************)
\* The calls the state shows: the pending ones, then those just delivered.
AllCalls == calls \o delivered

\* The tasks, by call and position, whose check awaited refresh r.
Awaiters(r) ==
  UNION {{<<k, i>> : i \in {j \in 1..Len(AllCalls[k].tasks) :
                              AllCalls[k].tasks[j].urlhaus.on = r}} :
           k \in 1..Len(AllCalls)}

\* The check u settled as the refresh s did.
SameOutcome(u, s) ==
  /\ u.state = s.state
  /\ s.state = "fulfilled" => u.snapshot = s.snapshot
  /\ s.state = "rejected" => u.error = s.error

\* The call issued by the step that led here.
NewestCall == CHOOSE call \in {AllCalls[k] : k \in 1..Len(AllCalls)} : call.id = issued

FifteenMinutes == 15 * 60 * 1000

\* What normalizeUrl gives for each argument of inspectUrl.
NormalizedInputs == [rawUrl \in UrlInputs |-> normalizeUrl(rawUrl)]

\* The input can be normalized.
Valid(rawUrl) ==
  IF rawUrl \in UrlInputs THEN NormalizedInputs[rawUrl] # Null
  ELSE normalizeUrl(rawUrl) # Null

\* C1: at most one bulk-feed fetch is in flight; every check that
\* waits, waits for that one fetch, the one the in-flight marker names, and
\* every check that waited for a fetch settles with that fetch's outcome.
C1_SingleFlight ==
  /\ Cardinality(DOMAIN refreshes) <= 1
  /\ cache.loading # 0 => DOMAIN refreshes = {cache.loading}
  /\ \A task \in TasksOf(calls) :
       task.urlhaus.state = "awaiting" => task.urlhaus.on = cache.loading
  /\ \A j \in DOMAIN settled : \A task \in TasksOf(AllCalls) :
       task.urlhaus.on = settled[j].id => SameOutcome(task.urlhaus, settled[j])

\* A fetch has settled that two checks were waiting for.
C1_Witness ==
  \E j \in DOMAIN settled :
    /\ Cardinality(Awaiters(settled[j].id)) >= 2
    /\ fetches = 1

\* C2: a check made while the snapshot is less than 15 minutes old is answered
\* with that snapshot and starts no fetch; a check made once the age has reached
\* 15 minutes, with no refresh in flight, starts exactly one fetch.
C2_FreshnessWindow ==
  [][(issued' = issued + 1 /\ Valid(NewestCall'.input)) =>
       IF now - cache.lastFetched < FifteenMinutes
       THEN /\ fetches' = fetches
            /\ refreshes' = refreshes
            /\ NewestCall'.tasks[1].urlhaus.state = "fulfilled"
            /\ NewestCall'.tasks[1].urlhaus.snapshot =
                 [urlMap |-> cache.urlMap, hostMap |-> cache.hostMap,
                  refreshedAt |-> cache.lastFetched]
       ELSE IF cache.loading = 0
       THEN /\ fetches' = fetches + 1
            /\ Cardinality(DOMAIN refreshes') = 1
       ELSE fetches' = fetches]_vars

\* A snapshot was installed, exactly 15 minutes have passed, and a check has
\* started the second fetch.
C2_Witness ==
  /\ cache.lastFetched > 0
  /\ now - cache.lastFetched = FifteenMinutes
  /\ fetches = 2
  /\ cache.loading = 2
  /\ issued = 2

\* The source descriptor d reports a failure and nothing else.
IsFailure(d, source) == DOMAIN d = {"source", "error"} /\ d.source = source

\* C3: inspectUrl on a valid input returns ok: true whatever the two sources did;
\* a source that failed is recorded as {source, error}, a source that succeeded
\* with its payload; ok: false is the result of an invalid input only.
C3_PartialFailure ==
  \A task \in TasksOf(AllCalls) :
    task.state # "pending" =>
      IF ~Valid(task.rawUrl)
      THEN ~task.result.ok
      ELSE /\ task.state = "returned"
           /\ task.result.ok
           /\ IF task.phish.state = "fulfilled"
              THEN task.result.sources.phishFeed =
                     [source |-> PHISH_SOURCE, flagged |-> task.phish.flagged]
              ELSE IsFailure(task.result.sources.phishFeed, PHISH_SOURCE)
           /\ IF task.urlhaus.state = "fulfilled"
              THEN task.result.sources.urlhaus = task.urlhaus.result
              ELSE IsFailure(task.result.sources.urlhaus, URLHAUS_NAME)

\* inspectUrl has returned with the real-time source failed and the URLHaus
\* match of the listed URL reported.
C3_Witness ==
  \E task \in TasksOf(delivered) :
    /\ task.result.ok
    /\ task.phish.state = "rejected"
    /\ task.urlhaus.state = "fulfilled"
    /\ task.result.sources.urlhaus.listed

\* C4: inspectUrl on an input that cannot be normalized returns {ok: false, error}
\* in the step of the call; it issues no real-time request, starts no refresh and
\* leaves the cache, its maps and its in-flight marker as they were.
C4_InvalidInput ==
  [][(issued' = issued + 1 /\ ~Valid(NewestCall'.input)) =>
       /\ NewestCall'.state = "returned"
       /\ NewestCall'.result = [ok |-> FALSE, error |-> ENTER_VALID_URL]
       /\ \A i \in 1..Len(NewestCall'.tasks) :
            /\ NewestCall'.tasks[i].phish.state = "none"
            /\ NewestCall'.tasks[i].urlhaus.state = "none"
       /\ ArmedTimers' = ArmedTimers
       /\ UNCHANGED <<cache, heap, refreshes, fetches>>]_vars

\* An invalid input has been answered while a refresh was in flight.
C4_Witness ==
  /\ cache.loading # 0
  /\ \E k \in 1..Len(delivered) :
       /\ ~Valid(delivered[k].input)
       /\ ~delivered[k].result.ok

\* The two maps a feed body parses to.
Generations == {ParsedFeeds[body] : body \in FeedBodies}

\* The maps of snapshot s are the two maps of one feed body.
OneGeneration(s, h) ==
  \E g \in Generations : h[s.urlMap] = g.urlMap /\ h[s.hostMap] = g.hostMap

\* C5: the two maps and the timestamp of the cache change only together, in the
\* step that ends a successful refresh, to two new Map objects built from that
\* refresh's body; a snapshot a check holds is the pair of maps of one feed body,
\* and no step changes a Map object that exists.
C5_AtomicSnapshot ==
  [][/\ (\/ cache'.urlMap # cache.urlMap
         \/ cache'.hostMap # cache.hostMap
         \/ cache'.lastFetched # cache.lastFetched) =>
          /\ Len(settled') = 1
          /\ settled'[1].state = "fulfilled"
          /\ {cache'.urlMap, cache'.hostMap} \cap DOMAIN heap = {}
          /\ cache'.urlMap # cache'.hostMap
          /\ cache'.lastFetched = now'
          /\ heap'[cache'.urlMap] = Parsed(settled'[1].body).urlMap
          /\ heap'[cache'.hostMap] = Parsed(settled'[1].body).hostMap
     /\ \A ref \in (DOMAIN heap) \cap (DOMAIN heap') : heap'[ref] = heap[ref]
     /\ \A task \in TasksOf(calls') :
          task.urlhaus.state = "fulfilled" =>
            /\ {task.urlhaus.snapshot.urlMap, task.urlhaus.snapshot.hostMap}
                 \subseteq DOMAIN heap'
            /\ OneGeneration(task.urlhaus.snapshot, heap')]_vars

\* A check still holds the snapshot of one feed body after a later refresh has
\* installed another.
C5_Witness ==
  \E task \in TasksOf(calls) :
    /\ task.urlhaus.state = "fulfilled"
    /\ task.urlhaus.snapshot.urlMap # cache.urlMap
    /\ heap[task.urlhaus.snapshot.urlMap] # heap[cache.urlMap]
    /\ task.urlhaus.snapshot.refreshedAt < cache.lastFetched

\* C6: when a refresh fails, the in-flight marker is cleared, every check that
\* awaited the refresh is rejected with the refresh's error, and the installed
\* maps and timestamp are what they were.
C6_RefreshFailure ==
  [][\A j \in DOMAIN settled' :
       settled'[j].state = "rejected" =>
         /\ settled'[j].id \in DOMAIN refreshes
         /\ settled'[j].id \notin DOMAIN refreshes'
         /\ cache'.loading = 0
         /\ \A task \in TasksOf(calls) :
              (task.urlhaus.state = "awaiting" /\ task.urlhaus.on = settled'[j].id) =>
                \E done \in TasksOf(AllCalls') :
                  /\ done.rawUrl = task.rawUrl
                  /\ done.urlhaus.on = task.urlhaus.on
         /\ \A task \in TasksOf(AllCalls') :
              task.urlhaus.on = settled'[j].id =>
                /\ task.urlhaus.state = "rejected"
                /\ task.urlhaus.error = settled'[j].error
         /\ cache'.urlMap = cache.urlMap
         /\ cache'.hostMap = cache.hostMap
         /\ cache'.lastFetched = cache.lastFetched
         /\ heap'[cache'.urlMap] = heap[cache.urlMap]
         /\ heap'[cache'.hostMap] = heap[cache.hostMap]]_vars

\* A refresh has failed over an installed snapshot, with a check waiting for it.
C6_Witness ==
  /\ cache.lastFetched > 0
  /\ cache.loading = 0
  /\ \E j \in DOMAIN settled :
       /\ settled[j].state = "rejected"
       /\ Awaiters(settled[j].id) # {}

\* C7: every bulk-feed refresh settles: whatever the remote does, a refresh that
\* is in flight is eventually over and the in-flight marker cleared.
C7_RefreshSettles == (cache.loading # 0) ~> (cache.loading = 0)

\* Call k of the HTTP layer has not returned.
Pending(k) == \E c \in 1..Len(calls) : calls[c].id = k

\* C8: inspectUrl always eventually returns: every call that is pending has
\* eventually returned.
C8_InspectUrlReturns == \A k \in 1..MaxCalls : Pending(k) ~> ~Pending(k)

\* What extractUrlsFromText gives for each text.
Extracted == [text \in TextInputs |-> extractUrlsFromText(text)]

\* The smaller of two numbers.
Min(a, b) == IF a < b THEN a ELSE b

\* The result of inspectText is the one C9 describes for the extracted urls.
BoundedInOrder(result, urls) ==
  /\ result.found = Len(urls)
  /\ Len(result.urls) = Min(Len(urls), 6)
  /\ result.truncated = (Len(urls) > 6)
  /\ \A i \in 1..Len(result.urls) :
       /\ result.urls[i].ok
       /\ result.urls[i].normalizedUrl = urls[i]

\* C9: for text with n distinct normalized URLs, inspectText returns found = n,
\* min(n, 6) entries, truncated = true iff n > 6, and entry i is the result for
\* the i-th extracted URL, whatever the order the lookups completed in.
C9_BoundsAndOrder ==
  \A k \in 1..Len(delivered) :
    delivered[k].kind = "text" =>
      BoundedInOrder(delivered[k].result, Extracted[delivered[k].input])

\* A text of seven URLs has been answered, truncated, with the first lookup
\* completed after the second.
C9_Witness ==
  \E k \in 1..Len(delivered) :
    /\ delivered[k].kind = "text"
    /\ delivered[k].result.found = 7
    /\ delivered[k].result.truncated
    /\ Len(delivered[k].result.urls) = 6
    /\ delivered[k].result.urls[1].fetchedAt > delivered[k].result.urls[2].fetchedAt

\* Entry e is the entry of task: its own outcome, or the guard's record of its throw.
OwnEntry(e, task) ==
  IF task.state = "threw"
  THEN e.ok = FALSE /\ e.url = task.rawUrl
  ELSE /\ e.ok
       /\ e.normalizedUrl = task.normalizedUrl
       /\ IF task.phish.state = "rejected"
          THEN IsFailure(e.sources.phishFeed, PHISH_SOURCE)
          ELSE "flagged" \in DOMAIN e.sources.phishFeed
       /\ IF task.urlhaus.state = "rejected"
          THEN IsFailure(e.sources.urlhaus, URLHAUS_NAME)
          ELSE "listed" \in DOMAIN e.sources.urlhaus

\* C10: inspectText returns ok: true, and only once every per-URL lookup has
\* completed or failed: it has one entry per capped URL, and a URL whose source
\* failed or whose inspectUrl threw is shown by its own entry, the others by theirs.
C10_BatchIsolation ==
  /\ \A k \in 1..Len(delivered) :
       delivered[k].kind = "text" =>
         /\ delivered[k].state = "returned"
         /\ delivered[k].result.ok
         /\ Len(delivered[k].result.urls) = Min(Len(Extracted[delivered[k].input]), 6)
         /\ Len(delivered[k].tasks) = Len(delivered[k].result.urls)
         /\ \A i \in 1..Len(delivered[k].tasks) :
              /\ delivered[k].tasks[i].state # "pending"
              /\ OwnEntry(delivered[k].result.urls[i], delivered[k].tasks[i])
  /\ \A c \in 1..Len(calls) :
       \E i \in 1..Len(calls[c].tasks) : calls[c].tasks[i].state = "pending"

\* A batch has been answered in which both sources of the first URL failed and
\* both sources of the second succeeded.
C10_Witness ==
  \E k \in 1..Len(delivered) :
    /\ delivered[k].kind = "text"
    /\ Len(delivered[k].result.urls) >= 2
    /\ delivered[k].result.ok
    /\ IsFailure(delivered[k].result.urls[1].sources.phishFeed, PHISH_SOURCE)
    /\ "flagged" \in DOMAIN delivered[k].result.urls[2].sources.phishFeed
    /\ IsFailure(delivered[k].result.urls[1].sources.urlhaus, URLHAUS_NAME)

\* The kinds of the lines of a generated body.
KindsOf(body) ==
  IF body = <<>> THEN <<>>
  ELSE [i \in 1..Len(Split(body, <<"\n">>)) |->
          CHOOSE k \in 1..Len(LineKinds) : LineKinds[k].line = Split(body, <<"\n">>)[i]]

\* The entries of the lines of host h, in feed order.
LinesOfHost(kinds, h) ==
  [i \in 1..Len(SelectSeq(kinds, LAMBDA k : LineKinds[k].host = h)) |->
     LineKinds[SelectSeq(kinds, LAMBDA k : LineKinds[k].host = h)[i]].entry]

\* The hosts of the line kinds.
KindHosts == {LineKinds[k].host : k \in 1..Len(LineKinds)}

\* hostMap is the host index C11 describes for the feed of these lines.
HostIndexOf(hostMap, kinds) ==
  /\ DOMAIN hostMap = {h \in KindHosts : LinesOfHost(kinds, h) # <<>>}
  /\ \A h \in DOMAIN hostMap :
       /\ Len(hostMap[h]) <= 5
       /\ hostMap[h] = SubSeq(LinesOfHost(kinds, h), 1, Min(5, Len(LinesOfHost(kinds, h))))

\* C11: in every installed snapshot each host's list has at most 5 entries, and
\* they are the first (at most 5) feed lines of that host in feed order: a later
\* line of the host is not added and displaces none.
C11_HostIndexBound ==
  /\ \A h \in DOMAIN heap[cache.hostMap] : Len(heap[cache.hostMap][h]) <= 5
  /\ \A j \in DOMAIN settled :
       (settled[j].state = "fulfilled" /\ settled[j].body \in ManyFeedBodies) =>
         HostIndexOf(heap[settled[j].snapshot.hostMap], KindsOf(settled[j].body))

\* A feed of six lines of host a is installed, the sixth with a URL of its own:
\* the list holds the first five, and the sixth URL is in urlMap only.
C11_Witness ==
  /\ settled # <<>>
  /\ settled[1].state = "fulfilled"
  /\ settled[1].body = FeedText(<<1, 1, 1, 1, 1, 2>>)
  /\ Len(heap[cache.hostMap][<<"a">>]) = 5
  /\ LineKinds[2].entry.url \in DOMAIN heap[cache.urlMap]
  /\ \A i \in 1..5 : heap[cache.hostMap][<<"a">>][i].url # LineKinds[2].entry.url

\* The entry e reported as a match of the given type.
Tagged(e, type) ==
  [url |-> e.url, threat |-> e.threat, lastOnline |-> e.lastOnline, matchType |-> type]

\* The exact-URL match of key, if any, then the entries of hostKey's list in order.
Combined(urlMap, hostMap, key, hostKey) ==
  (IF key \in DOMAIN urlMap THEN <<Tagged(urlMap[key], "url")>> ELSE <<>>)
  \o (IF hostKey \in DOMAIN hostMap
      THEN [i \in 1..Len(hostMap[hostKey]) |-> Tagged(hostMap[hostKey][i], "host")]
      ELSE <<>>)

\* result is what C12 describes for the combined list.
ShapedFrom(result, combined) ==
  /\ result.matches = SubSeq(combined, 1, Min(5, Len(combined)))
  /\ result.listed = (combined # <<>>)

\* C12: the matches of a check are the exact-URL match (matchType url), if any,
\* followed by the host's hostMap entries (matchType host) in index order, cut to
\* at most 5; listed is true iff that combined list is not empty.
C12_CheckShape ==
  \A task \in TasksOf(calls) :
    task.urlhaus.state = "fulfilled" =>
      ShapedFrom(task.urlhaus.result,
                 Combined(heap[task.urlhaus.snapshot.urlMap],
                          heap[task.urlhaus.snapshot.hostMap],
                          task.urlhaus.key, task.urlhaus.hostKey))

\* A check of a listed URL whose host has five entries: the exact match comes
\* first and the fifth host entry is cut.
C12_Witness ==
  \E task \in TasksOf(calls) :
    /\ task.urlhaus.state = "fulfilled"
    /\ task.urlhaus.key \in DOMAIN heap[task.urlhaus.snapshot.urlMap]
    /\ Len(heap[task.urlhaus.snapshot.hostMap][task.urlhaus.hostKey]) = 5
    /\ Len(task.urlhaus.result.matches) = 5
    /\ task.urlhaus.result.matches[1].matchType = "url"
    /\ task.urlhaus.result.matches[2].matchType = "host"
    /\ task.urlhaus.result.matches[2].url # task.urlhaus.key
    /\ task.urlhaus.result.listed

\* C13: normalization is idempotent: the normalized URL inspectUrl works with
\* normalizes to itself.
C13_Idempotent ==
  \A task \in TasksOf(AllCalls) :
    task.normalizedUrl # Null => normalizeUrl(task.normalizedUrl) = task.normalizedUrl

\* The normalized URL of each word of a generated text (Null: the word has none).
WordUrls(text) ==
  LET words == Split(text, <<" ">>)
  IN [w \in 1..Len(words) |->
        WordKinds[CHOOSE k \in 1..Len(WordKinds) : WordKinds[k].word = words[w]].url]

\* The position of the first word of the text that spells url.
FirstWord(wordUrls, url) == SetMin({w \in 1..Len(wordUrls) : wordUrls[w] = url})

\* The lookups of call are those of the distinct URLs of the words, each once, in
\* the order the URLs first appear.
FirstOccurrences(call, wordUrls) ==
  /\ call.found = Cardinality({wordUrls[w] : w \in 1..Len(wordUrls)} \ {Null})
  /\ Len(call.tasks) = call.found
  /\ \A i \in 1..Len(call.tasks) :
       /\ call.tasks[i].rawUrl # Null
       /\ \E w \in 1..Len(wordUrls) : wordUrls[w] = call.tasks[i].rawUrl
  /\ \A i, j \in 1..Len(call.tasks) :
       i < j => /\ call.tasks[i].rawUrl # call.tasks[j].rawUrl
                /\ FirstWord(wordUrls, call.tasks[i].rawUrl)
                     < FirstWord(wordUrls, call.tasks[j].rawUrl)

\* C14: extraction deduplicates by normalized form, drops the candidates that fail
\* normalization and keeps the order of first appearance: inspectText counts and
\* looks up each distinct normalized URL of the text once, in that order.
C14_ExtractionDedupes ==
  \A k \in 1..Len(AllCalls) :
    (AllCalls[k].kind = "text" /\ AllCalls[k].input \in ManyTexts) =>
      FirstOccurrences(AllCalls[k], WordUrls(AllCalls[k].input))

\* The text "www.b http://a:b HTTP://A/ http://a" was submitted: two URLs found,
\* the www. host first, the repeated URL once, the unparsable candidate dropped.
C14_Witness ==
  \E k \in 1..Len(AllCalls) :
    /\ AllCalls[k].kind = "text"
    /\ AllCalls[k].input = TextOf(<<3, 4, 2, 1>>)
    /\ AllCalls[k].found = 2
    /\ Len(AllCalls[k].tasks) = 2
    /\ AllCalls[k].tasks[1].rawUrl = HTTPS \o WWWDOT \o <<"b">>
    /\ AllCalls[k].tasks[2].rawUrl = HTTP \o <<"a">>

\* The request q is the request p a step later: not sent again, its timer not
\* armed again.
SameRequest(p, q) ==
  /\ q.timer \in {p.timer, 0}
  /\ Settled(p) => q = p
  /\ p.state = "body" => q.state # "headers"

\* C15: no automatic retry.  A bulk-feed fetch starts only in the step of a call
\* whose load() found the snapshot not fresh and no refresh in flight, one fetch
\* per such step; the step in which a refresh fails starts none and leaves none in
\* flight, and the next such call starts exactly one; a call sends the one
\* real-time request of each valid URL, and no later step sends it again.
C15_NoRetry ==
  [][/\ fetches' # fetches =>
          /\ issued' = issued + 1
          /\ fetches' = fetches + 1
          /\ now - cache.lastFetched >= FifteenMinutes
          /\ cache.loading = 0
          /\ DOMAIN refreshes' = DOMAIN refreshes \cup {fetches'}
          /\ refreshes'[fetches'].state = "headers"
     /\ (issued' = issued + 1 /\ Valid(NewestCall'.input)
           /\ now - cache.lastFetched >= FifteenMinutes /\ cache.loading = 0) =>
          fetches' = fetches + 1
     /\ issued' = issued + 1 =>
          \A i \in 1..Len(NewestCall'.tasks) :
            IF Valid(NewestCall'.tasks[i].rawUrl)
            THEN /\ NewestCall'.tasks[i].phish.state = "headers"
                 /\ NewestCall'.tasks[i].phish.timer = now + 8000
            ELSE NewestCall'.tasks[i].phish.state = "none"
     /\ \A r \in DOMAIN refreshes \cap DOMAIN refreshes' :
          SameRequest(refreshes[r], refreshes'[r])
     /\ \A j \in DOMAIN settled' :
          settled'[j].state = "rejected" =>
            /\ fetches' = fetches
            /\ DOMAIN refreshes' = {}
     /\ \A c \in 1..Len(calls), d \in 1..Len(AllCalls') :
          calls[c].id = AllCalls'[d].id =>
            \A i \in 1..Len(calls[c].tasks) :
              SameRequest(calls[c].tasks[i].phish, AllCalls'[d].tasks[i].phish)]_vars

\* The first refresh failed and the call that waited for it has returned; nothing
\* was fetched until the second call, which started fetch 2 and sent its own
\* real-time request.
C15_Witness ==
  /\ cache.lastFetched = 0
  /\ fetches = 2
  /\ cache.loading = 2
  /\ DOMAIN refreshes = {2}
  /\ issued = 2
  /\ Len(calls) = 1
  /\ calls[1].id = 2
  /\ calls[1].tasks[1].phish.state = "headers"

\* The checks of call all wait for refresh r.
Coalesced(call, r) ==
  \A i \in 1..Len(call.tasks) :
    /\ call.tasks[i].urlhaus.state = "awaiting"
    /\ call.tasks[i].urlhaus.on = r

\* C16: one inspectText call starts at most one bulk-feed fetch however many URLs
\* it inspects: on a fresh cache it starts none and every check has its answer
\* from the snapshot; on a stale cache with a refresh in flight it starts none and
\* every check waits for that refresh; on a stale idle cache a call with URLs
\* starts exactly one fetch and every check waits for it.
C16_OneFetchPerBatch ==
  [][(issued' = issued + 1 /\ NewestCall'.kind = "text") =>
       /\ fetches' <= fetches + 1
       /\ IF now - cache.lastFetched < FifteenMinutes
          THEN /\ fetches' = fetches
               /\ \A i \in 1..Len(NewestCall'.tasks) :
                    /\ NewestCall'.tasks[i].urlhaus.state = "fulfilled"
                    /\ NewestCall'.tasks[i].urlhaus.on = 0
          ELSE IF cache.loading # 0
          THEN /\ fetches' = fetches
               /\ refreshes' = refreshes
               /\ Coalesced(NewestCall', cache.loading)
          ELSE IF NewestCall'.tasks = <<>>
          THEN fetches' = fetches
          ELSE /\ fetches' = fetches + 1
               /\ DOMAIN refreshes' = {fetches'}
               /\ cache'.loading = fetches'
               /\ Coalesced(NewestCall', fetches')]_vars

\* The snapshot installed for the first call has aged out, and the text of seven
\* URLs has been submitted: its six checks wait for fetch 2, the only one in flight.
C16_Witness ==
  /\ cache.lastFetched > 0
  /\ fetches = 2
  /\ DOMAIN refreshes = {2}
  /\ \E k \in 1..Len(calls) :
       /\ calls[k].kind = "text"
       /\ calls[k].found = 7
       /\ Len(calls[k].tasks) = 6
       /\ Coalesced(calls[k], 2)

\* The check of task i of call number id had its snapshot before the step.
HadSnapshot(id, i) ==
  \E c \in 1..Len(calls) :
    /\ calls[c].id = id
    /\ calls[c].tasks[i].urlhaus.state = "fulfilled"

\* The check u is answered, at time t, from the snapshot installed in cache c by a
\* successful refresh less than 15 minutes before.
ServedFresh(u, t, c) ==
  /\ u.snapshot = [urlMap |-> c.urlMap, hostMap |-> c.hostMap, refreshedAt |-> c.lastFetched]
  /\ u.snapshot.refreshedAt > 0
  /\ t - u.snapshot.refreshedAt < FifteenMinutes
  /\ u.result.refreshedAt = u.snapshot.refreshedAt

\* C17: a stale or never-loaded snapshot is never served.  A check that obtains
\* its snapshot in a step obtains the installed one, installed by a successful
\* refresh (never the initial empty one) and less than 15 minutes old at that
\* moment; and when a refresh fails, each check that awaited it fails with it,
\* whatever snapshot is installed.
C17_NeverServedStale ==
  [][/\ \A d \in 1..Len(AllCalls') :
          \A i \in 1..Len(AllCalls'[d].tasks) :
            (AllCalls'[d].tasks[i].urlhaus.state = "fulfilled"
               /\ ~HadSnapshot(AllCalls'[d].id, i)) =>
              ServedFresh(AllCalls'[d].tasks[i].urlhaus, now', cache')
     /\ \A j \in DOMAIN settled' :
          settled'[j].state = "rejected" =>
            \A c \in 1..Len(calls), d \in 1..Len(AllCalls') :
              calls[c].id = AllCalls'[d].id =>
                \A i \in 1..Len(calls[c].tasks) :
                  (calls[c].tasks[i].urlhaus.state = "awaiting"
                     /\ calls[c].tasks[i].urlhaus.on = settled'[j].id) =>
                    /\ AllCalls'[d].tasks[i].urlhaus.state = "rejected"
                    /\ AllCalls'[d].tasks[i].urlhaus.result = NoCheck]_vars

\* A refresh has failed on a cache whose installed snapshot is at least 15 minutes
\* old, and the call whose check awaited it reports the failure of the source.
C17_Witness ==
  /\ cache.lastFetched > 0
  /\ now - cache.lastFetched >= FifteenMinutes
  /\ \E j \in DOMAIN settled, d \in 1..Len(delivered) :
       /\ settled[j].state = "rejected"
       /\ delivered[d].tasks[1].urlhaus.on = settled[j].id
       /\ delivered[d].tasks[1].urlhaus.state = "rejected"
       /\ delivered[d].result.ok
       /\ IsFailure(delivered[d].result.sources.urlhaus, URLHAUS_NAME)

\* C18: whenever the in-flight marker is set the snapshot is not fresh: the cache
\* is never both fresh and refreshing.
C18_RefreshingIsStale ==
  cache.loading # 0 =>
    /\ now - cache.lastFetched >= FifteenMinutes
    /\ cache.loading \in DOMAIN refreshes

\* The installed snapshot turned 15 minutes old, a check started a refresh, and
\* the response body of that refresh is being received.
C18_Witness ==
  /\ cache.loading # 0
  /\ cache.lastFetched > 0
  /\ now - cache.lastFetched = FifteenMinutes
  /\ refreshes[cache.loading].state = "body"

\* The snapshots in use: the installed one, the one a refresh has just resolved
\* to, and those the answered checks of pending calls hold.
Snapshots ==
  {[urlMap |-> cache.urlMap, hostMap |-> cache.hostMap, refreshedAt |-> cache.lastFetched]}
    \cup {settled[j].snapshot : j \in {i \in DOMAIN settled : settled[i].state = "fulfilled"}}
    \cup {task.urlhaus.snapshot :
            task \in {x \in TasksOf(calls) : x.urlhaus.state = "fulfilled"}}

\* The two indexes agree: every listed entry is indexed by URL and filed under its
\* own host, and every indexed URL's host has entries.
Consistent(urlMap, hostMap) ==
  /\ \A host \in DOMAIN hostMap :
       /\ hostMap[host] # <<>>
       /\ \A i \in 1..Len(hostMap[host]) :
            /\ hostMap[host][i].url \in DOMAIN urlMap
            /\ HostKey(hostMap[host][i].url) = host
  /\ \A url \in DOMAIN urlMap :
       /\ HostKey(url) \in DOMAIN hostMap
       /\ hostMap[HostKey(url)] # <<>>

\* C19: index consistency of every snapshot: each hostMap entry's url is a key of
\* the same snapshot's urlMap and its host, www. stripped, is the key of its list;
\* the host of every urlMap key has a non-empty list; and a check whose URL is a
\* key of urlMap reports listed = true.
C19_IndexConsistency ==
  /\ \A snap \in Snapshots : Consistent(heap[snap.urlMap], heap[snap.hostMap])
  /\ \A task \in TasksOf(calls) :
       (task.urlhaus.state = "fulfilled"
          /\ task.urlhaus.key \in DOMAIN heap[task.urlhaus.snapshot.urlMap]) =>
         /\ task.urlhaus.result.listed
         /\ task.urlhaus.result.matches[1].matchType = "url"

\* A feed with the three kinds of line is installed: the URL of a www. host is
\* filed under the bare host, and a check of an indexed URL is answered as listed.
C19_Witness ==
  /\ cache.lastFetched > 0
  /\ Cardinality(DOMAIN heap[cache.urlMap]) = 3
  /\ DOMAIN heap[cache.hostMap] = {<<"a">>, <<"b">>}
  /\ \E i \in 1..Len(heap[cache.hostMap][<<"a">>]) :
       heap[cache.hostMap][<<"a">>][i].url = HTTP \o WWWDOT \o <<"a", "/", "y">>
  /\ \E task \in TasksOf(calls) :
       /\ task.urlhaus.state = "fulfilled"
       /\ task.urlhaus.snapshot.urlMap = cache.urlMap
       /\ task.urlhaus.key \in DOMAIN heap[cache.urlMap]
       /\ task.urlhaus.result.listed

====
